---------------------------- MODULE Spec2Model ----------------------------
(***************************************************************************)
(* Model of the guptime monitoring engine (package monitor): the SQLite    *)
(* store (tables monitors and log_entries, foreign keys enabled, ON DELETE *)
(* CASCADE), Service.Start and the registry replacement, the probe         *)
(* scheduler, the prober, the retention purger and the read queries.       *)
(*                                                                         *)
(* One model time unit stands for one second of time.Now().Unix(); a day   *)
(* is scaled to two of them.                                               *)
(***************************************************************************)
EXTENDS Integers, Sequences, FiniteSets, Bags, TLC

VARIABLES
    phase,           \* position of the process: "new", "running", "exited"
    dbOpen,          \* the *sql.DB handle of the Service is open
    monitors,        \* table monitors: set of rows [slug, name, url]
    log_entries,     \* table log_entries: sequence of rows, in rowid order
    monitorsConfig,  \* Service.monitorsConfig: sequence of Monitor
    probes,          \* checkMonitor goroutines in flight, a bag of records
    schedPc,         \* the probe goroutine of Start: "off", "initial", "ticking"
    purgePc,         \* startRetentionCron: "off", "initial", "ticking"
    now,             \* wall clock, seconds
    served,          \* the query the last step served, "none" when it served none
    cache,           \* APIHandler.cache: set of items [key, value]
    request          \* the GetMonitorSummary in progress, between its two queries

vars == <<phase, dbOpen, monitors, log_entries, monitorsConfig, probes,
          schedPc, purgePc, now, served, cache, request>>

----------------------------------------------------------------------------
(* Bounds of the model *)

MaxTime     == 3     \* the clock runs 0..MaxTime
MaxLog      == 2     \* rows of log_entries
MaxProbes   == 2     \* checkMonitor goroutines in flight at once

(* 24 * time.Hour, scaled: a day of the model has two seconds, the second *)
(* of midnight and one more                                                *)
twentyFourHours == 2

(* Config.RetentionDays *)
RetentionDays == 1

(* retentionPeriod: time.Duration(config.RetentionDays) * 24 * time.Hour *)
retentionPeriod == RetentionDays * twentyFourHours

(* Strings the code formats or matches are sequences of characters *)
Chars(s) ==
    CASE s = "EOF" -> <<"E", "O", "F">>
      [] s = "Error: " -> <<"E", "r", "r", "o", "r", ":", " ">>
      [] s = "No data yet" -> <<"N", "o", " ", "d", "a", "t", "a", " ", "y", "e", "t">>

(* What a target answers to http.Get: a transport error, or a status line, *)
(* and the milliseconds it takes. The target u1 answers 200, the target u2 *)
(* closes the connection, the target u3 answers with the status line       *)
(* "HTTP/1.1 020", which net/http reads as StatusCode 20. The target u4    *)
(* accepts the connection and never answers: http.Get, which has no        *)
(* timeout, does not return.                                               *)
TargetReply ==
    [u \in {"u1", "u2", "u3", "u4"} |->
        CASE u = "u1" -> [answers |-> TRUE, err |-> <<>>, status |-> 200, ms |-> 12]
          [] u = "u2" -> [answers |-> TRUE, err |-> Chars("EOF"), status |-> 0, ms |-> 30]
          [] u = "u3" -> [answers |-> TRUE, err |-> <<>>, status |-> 20, ms |-> 20]
          [] u = "u4" -> [answers |-> FALSE, err |-> <<>>, status |-> 0, ms |-> 0]]

(* The monitors a monitors.json may list: two groups, and one identity    *)
(* with two different target URLs.                                         *)
MA1 == [slug |-> "a", name |-> "x", url |-> "u1"]
MA1b == [slug |-> "a", name |-> "x", url |-> "u2"]
MB1 == [slug |-> "b", name |-> "x", url |-> "u3"]
MH1 == [slug |-> "b", name |-> "y", url |-> "u4"]

(* The non-empty lists a monitors.json may hold: one monitor, one identity *)
(* listed twice, two groups out of order, one group with two names out of   *)
(* order of which one has a target that never answers.                      *)
ConfigLists == { <<MA1>>, <<MA1, MA1b>>, <<MB1, MA1>>, <<MH1, MB1>> }

(* The (slug, name) pairs a query may ask for; only one list holds the    *)
(* second.                                                                 *)
QueryKeys == { <<"a", "x">>, <<"b", "x">> }

(* The start and end a query may ask for: the whole clock, one second,    *)
(* a start behind the end                                                  *)
QueryRanges == { <<0, MaxTime>>, <<1, 1>>, <<2, 1>> }

----------------------------------------------------------------------------
(* Helpers *)

Key(m) == <<m.slug, m.name>>

Range(s) == {s[i] : i \in 1..Len(s)}

(* MonitorLogEntry *)
LogEntry(ts, ms, response) == [timestamp |-> ts, time |-> ms, response |-> response]

(* A row of log_entries (the AUTOINCREMENT id is the position in rowid order) *)
Row(slug, name, entry) ==
    [monitor_slug |-> slug, monitor_name |-> name,
     timestamp |-> entry.timestamp, time |-> entry.time, response |-> entry.response]

----------------------------------------------------------------------------
(* The store *)

(* INSERT INTO monitors: the PRIMARY KEY (slug, name) rejects a second row *)
(* with the same key.                                                       *)
InsertMonitorOk(reg, m) == \A r \in reg : Key(r) # Key(m)

(* The loop of addMonitorsToDB over s.monitorsConfig from index i: a failed *)
(* insert is logged and the loop goes on. rejected: the indices whose       *)
(* INSERT the store fails for a reason other than the primary key.          *)
RECURSIVE InsertAll(_, _, _, _)
InsertAll(reg, cfg, i, rejected) ==
    IF i > Len(cfg) THEN reg
    ELSE IF i \notin rejected /\ InsertMonitorOk(reg, cfg[i])
         THEN InsertAll(reg \cup {cfg[i]}, cfg, i + 1, rejected)
         ELSE InsertAll(reg, cfg, i + 1, rejected)

(* DELETE FROM monitors with foreign keys on: every row of log_entries     *)
(* references a deleted parent row and is deleted by ON DELETE CASCADE.    *)
CascadeDelete(log, deleted) ==
    SelectSeq(log, LAMBDA r : \A m \in deleted : Key(m) # <<r.monitor_slug, r.monitor_name>>)

TxFaults == {"none", "begin", "delete", "prepare", "commit"}

(* addMonitorsToDB without the transaction: a failed Commit leaves what   *)
(* the statements did                                                      *)
addMonitorsToDBNoRollback(reg, log, cfg, fault, rejected) ==
    IF fault \in {"begin", "delete", "prepare"}
    THEN [err |-> TRUE, monitors |-> reg, log_entries |-> log]
    ELSE [err |-> fault = "commit",
          monitors |-> InsertAll({}, cfg, 1, rejected),
          log_entries |-> CascadeDelete(log, reg)]

(* addMonitorsToDB: one transaction; any error before or at Commit returns *)
(* the error and the deferred Rollback undoes the transaction.             *)
addMonitorsToDB(reg, log, cfg, fault, rejected) ==
    IF fault # "none"
    THEN [err |-> TRUE, monitors |-> reg, log_entries |-> log]
    ELSE [err |-> FALSE,
          monitors |-> InsertAll({}, cfg, 1, rejected),
          log_entries |-> CascadeDelete(log, reg)]

(* No GetMonitorSummary is between its two queries *)
Idle == [pc |-> "idle"]

----------------------------------------------------------------------------
Init ==
    /\ phase = "new"
    /\ dbOpen = TRUE
    /\ monitors = {}
    /\ log_entries = <<>>
    /\ monitorsConfig = <<>>
    /\ probes = EmptyBag
    /\ schedPc = "off"
    /\ purgePc = "off"
    /\ now = 0
    /\ served = "none"
    /\ cache = {}
    /\ request = Idle

(* Service.Start, monitors.json cannot be read or parsed *)
StartLoadError ==
    /\ phase = "new"
    /\ phase' = "exited"
    /\ dbOpen' = FALSE
    /\ served' = "none"
    /\ UNCHANGED <<cache, request>>
    /\ UNCHANGED <<monitors, log_entries, monitorsConfig, probes, schedPc, purgePc, now>>

(* Service.Start, monitors.json holds the empty list *)
StartEmpty ==
    /\ phase = "new"
    /\ monitorsConfig' = <<>>
    /\ phase' = "running"
    /\ served' = "none"
    /\ UNCHANGED <<cache, request>>
    /\ UNCHANGED <<dbOpen, monitors, log_entries, probes, schedPc, purgePc, now>>

(* A Start that launches its two goroutines before addMonitorsToDB *)
StartGoroutinesFirst(cfg, fault, rejected) ==
    /\ phase = "new"
    /\ Len(cfg) > 0
    /\ LET r == addMonitorsToDB(monitors, log_entries, cfg, fault, rejected) IN
         /\ monitorsConfig' = cfg
         /\ monitors' = r.monitors
         /\ log_entries' = r.log_entries
         /\ schedPc' = "initial"
         /\ purgePc' = "initial"
         /\ IF r.err
            THEN phase' = "exited" /\ dbOpen' = FALSE
            ELSE phase' = "running" /\ UNCHANGED dbOpen
    /\ served' = "none"
    /\ UNCHANGED <<cache, request>>
    /\ UNCHANGED <<probes, now>>

(* Service.Start with a non-empty list *)
StartMonitors(cfg, fault, rejected) ==
    /\ phase = "new"
    /\ Len(cfg) > 0
    /\ LET r == addMonitorsToDB(monitors, log_entries, cfg, fault, rejected) IN
         /\ monitorsConfig' = cfg
         /\ monitors' = r.monitors
         /\ log_entries' = r.log_entries
         /\ IF r.err
            THEN /\ phase' = "exited"
                 /\ dbOpen' = FALSE
                 /\ UNCHANGED <<schedPc, purgePc>>
            ELSE /\ phase' = "running"
                 /\ schedPc' = "initial"
                 /\ purgePc' = "initial"
                 /\ UNCHANGED dbOpen
    /\ served' = "none"
    /\ UNCHANGED <<cache, request>>
    /\ UNCHANGED <<probes, now>>

Start ==
    \/ StartLoadError
    \/ StartEmpty
    \/ \E cfg \in ConfigLists, fault \in TxFaults :
          \E rejected \in SUBSET (1..Len(cfg)) : StartMonitors(cfg, fault, rejected)

(* The process ends (main returns after Service.Close, or the process is  *)
(* killed): the database handle, the Service and its goroutines are gone,  *)
(* the database file stays.                                                *)
Exit ==
    /\ phase = "running"
    /\ phase' = "exited"
    /\ dbOpen' = FALSE
    /\ monitorsConfig' = <<>>
    /\ probes' = EmptyBag
    /\ schedPc' = "off"
    /\ purgePc' = "off"
    /\ served' = "none"
    /\ cache' = {}
    /\ request' = Idle
    /\ UNCHANGED <<monitors, log_entries, now>>

(* A Close that marks the service closed and leaves the handle open *)
CloseLeavesHandleOpen ==
    /\ phase = "running"
    /\ phase' = "closed"
    /\ served' = "none"
    /\ UNCHANGED <<cache, request>>
    /\ UNCHANGED <<dbOpen, monitors, log_entries, monitorsConfig, probes, schedPc, purgePc, now>>

(* Service.Close as main calls it on a signal: it closes the database   *)
(* handle and nothing else; the two goroutines of Start and the probes in   *)
(* flight go on until the process ends.                                     *)
Close ==
    /\ phase = "running"
    /\ phase' = "closed"
    /\ dbOpen' = FALSE
    /\ served' = "none"
    /\ UNCHANGED <<cache, request>>
    /\ UNCHANGED <<monitors, log_entries, monitorsConfig, probes, schedPc, purgePc, now>>

(* main returns after Close: serverStopCtx releases it *)
ExitAfterClose ==
    /\ phase = "closed"
    /\ phase' = "exited"
    /\ dbOpen' = FALSE
    /\ monitorsConfig' = <<>>
    /\ probes' = EmptyBag
    /\ schedPc' = "off"
    /\ purgePc' = "off"
    /\ served' = "none"
    /\ cache' = {}
    /\ request' = Idle
    /\ UNCHANGED <<monitors, log_entries, now>>

(* A new process: NewService opens the database file and returns a       *)
(* Service without monitorsConfig; initializeDatabase creates the tables   *)
(* only if they do not exist.                                              *)
NewService ==
    /\ phase = "exited"
    /\ phase' = "new"
    /\ dbOpen' = TRUE
    /\ monitorsConfig' = <<>>
    /\ served' = "none"
    /\ UNCHANGED <<cache, request>>
    /\ UNCHANGED <<monitors, log_entries, probes, schedPc, purgePc, now>>

----------------------------------------------------------------------------
(* Probe scheduler and prober *)

(* No logEntry yet *)
NoEntry == LogEntry(-1, 0, <<>>)

(* http.Get(url) *)
httpGet(url) == TargetReply[url]

(* fmt.Sprintf("%d", n) for n >= 0: the decimal digits, no leading zero *)
Digit(d) == <<"0", "1", "2", "3", "4", "5", "6", "7", "8", "9">>[d + 1]

RECURSIVE Sprintd(_)
Sprintd(n) ==
    IF n < 10 THEN <<Digit(n)>> ELSE Append(Sprintd(n \div 10), Digit(n % 10))

IsDigit(c) == \E d \in 0..9 : c = Digit(d)

(* The response is a decimal numeral *)
IsDecimal(response) ==
    Len(response) >= 1 /\ \A i \in DOMAIN response : IsDigit(response[i])

(* The number a decimal numeral stands for *)
RECURSIVE Atoi(_)
Atoi(response) ==
    IF response = <<>> THEN 0
    ELSE 10 * Atoi(SubSeq(response, 1, Len(response) - 1))
            + (CHOOSE d \in 0..9 : response[Len(response)] = Digit(d))

(* A responseCode that prints the status whatever the error *)
responseCodeStatusOnly(reply) == Sprintd(reply.status)

(* responseCode: fmt.Sprintf("Error: %v", err) or fmt.Sprintf("%d", resp.StatusCode) *)
responseCode(reply) ==
    IF reply.err # <<>> THEN Chars("Error: ") \o reply.err ELSE Sprintd(reply.status)

(* go s.checkMonitor(slug, name, url): the goroutine before http.Get returns *)
NewProbe(m) == [slug |-> m.slug, name |-> m.name, url |-> m.url, pc |-> "get", entry |-> NoEntry]

RECURSIVE LaunchAll(_, _, _)
LaunchAll(bag, cfg, i) ==
    IF i > Len(cfg) THEN bag
    ELSE LaunchAll(bag (+) SetToBag({NewProbe(cfg[i])}), cfg, i + 1)

(* monitorAll: one goroutine per entry of s.monitorsConfig, none awaited *)
monitorAll(bag, cfg) == LaunchAll(bag, cfg, 1)

(* The goroutines and rows the bounds leave room for *)
Room(bag, log, n) ==
    /\ BagCardinality(bag) + n <= MaxProbes
    /\ Len(log) + BagCardinality(bag) + n <= MaxLog

(* A scheduler that starts a pass only when no probe is in flight *)
PassAfterPrevious ==
    /\ schedPc \in {"initial", "ticking"}
    /\ probes = EmptyBag
    /\ Room(probes, log_entries, Len(monitorsConfig))
    /\ probes' = monitorAll(probes, monitorsConfig)
    /\ schedPc' = "ticking"
    /\ served' = "none"
    /\ UNCHANGED <<cache, request>>
    /\ UNCHANGED <<phase, dbOpen, monitors, log_entries, monitorsConfig, purgePc, now>>

(* The goroutine of Start: monitorAll at once, then at every tick. The    *)
(* bounds stop it when the goroutines it launches would exceed MaxProbes   *)
(* or their rows MaxLog.                                                   *)
Pass ==
    /\ schedPc \in {"initial", "ticking"}
    /\ Room(probes, log_entries, Len(monitorsConfig))
    /\ probes' = monitorAll(probes, monitorsConfig)
    /\ schedPc' = "ticking"
    /\ served' = "none"
    /\ UNCHANGED <<cache, request>>
    /\ UNCHANGED <<phase, dbOpen, monitors, log_entries, monitorsConfig, purgePc, now>>

(* A checkMonitor that waits while the Get of a hanging target is open *)
checkMonitorSerial(p) ==
    /\ \A q \in BagToSet(probes) : httpGet(q.url).answers
    /\ BagIn(p, probes)
    /\ p.pc = "get"
    /\ httpGet(p.url).answers
    /\ LET reply == httpGet(p.url)
           entry == LogEntry(now, reply.ms, responseCode(reply)) IN
         probes' = (probes (-) SetToBag({p}))
                       (+) SetToBag({[p EXCEPT !.pc = "save", !.entry = entry]})
    /\ served' = "none"
    /\ UNCHANGED <<cache, request>>
    /\ UNCHANGED <<phase, dbOpen, monitors, log_entries, monitorsConfig, schedPc, purgePc, now>>

(* A checkMonitor whose transport error ends the pass and the scheduler *)
ProbeDoneAbortsPass(p) ==
    /\ BagIn(p, probes)
    /\ p.pc = "get"
    /\ httpGet(p.url).answers
    /\ LET reply == httpGet(p.url)
           entry == LogEntry(now, reply.ms, responseCode(reply))
           q == [p EXCEPT !.pc = "save", !.entry = entry] IN
         IF reply.err # <<>>
         THEN probes' = SetToBag({q}) /\ schedPc' = "off"
         ELSE probes' = (probes (-) SetToBag({p})) (+) SetToBag({q}) /\ schedPc' = schedPc
    /\ served' = "none"
    /\ UNCHANGED <<cache, request>>
    /\ UNCHANGED <<phase, dbOpen, monitors, log_entries, monitorsConfig, purgePc, now>>

(* checkMonitor up to the construction of logEntry: http.Get has returned, *)
(* Time is the elapsed time, Response the status or the error, Timestamp   *)
(* is time.Now().Unix().                                                   *)
ProbeDone(p) ==
    /\ BagIn(p, probes)
    /\ p.pc = "get"
    /\ httpGet(p.url).answers
    /\ LET reply == httpGet(p.url)
           entry == LogEntry(now, reply.ms, responseCode(reply)) IN
         probes' = (probes (-) SetToBag({p}))
                     (+) SetToBag({[p EXCEPT !.pc = "save", !.entry = entry]})
    /\ served' = "none"
    /\ UNCHANGED <<cache, request>>
    /\ UNCHANGED <<phase, dbOpen, monitors, log_entries, monitorsConfig, schedPc, purgePc, now>>

(* The INSERT with foreign keys not enforced *)
saveLogEntryNoForeignKey(log, reg, open, slug, name, entry, fault) ==
    IF open /\ ~fault
    THEN [err |-> FALSE, log_entries |-> Append(log, Row(slug, name, entry))]
    ELSE [err |-> TRUE, log_entries |-> log]

(* A write that stamps the row with the second of the write *)
saveLogEntryStampsWrite(log, reg, open, slug, name, entry, fault) ==
    IF open /\ ~fault /\ (\E m \in reg : Key(m) = <<slug, name>>)
    THEN [err |-> FALSE,
          log_entries |-> Append(log, Row(slug, name, [entry EXCEPT !.timestamp = now]))]
    ELSE [err |-> TRUE, log_entries |-> log]

(* A write that replaces the last row when it has the same timestamp *)
saveLogEntryOverwrites(log, reg, open, slug, name, entry, fault) ==
    IF open /\ ~fault /\ (\E m \in reg : Key(m) = <<slug, name>>)
    THEN [err |-> FALSE,
          log_entries |->
              IF log # <<>> /\ log[Len(log)].timestamp = entry.timestamp
              THEN [log EXCEPT ![Len(log)] = Row(slug, name, entry)]
              ELSE Append(log, Row(slug, name, entry))]
    ELSE [err |-> TRUE, log_entries |-> log]

(* INSERT INTO log_entries: refused on a closed handle, when the foreign  *)
(* key (monitor_slug, monitor_name) has no parent row, or by a store fault *)
saveLogEntry(log, reg, open, slug, name, entry, fault) ==
    IF open /\ ~fault /\ (\E m \in reg : Key(m) = <<slug, name>>)
    THEN [err |-> FALSE, log_entries |-> Append(log, Row(slug, name, entry))]
    ELSE [err |-> TRUE, log_entries |-> log]

(* A checkMonitor that keeps its logEntry after a failed write and tries  *)
(* again                                                                    *)
ProbeSaveRetries(p, fault) ==
    /\ BagIn(p, probes)
    /\ p.pc = "save"
    /\ LET r == saveLogEntry(log_entries, monitors, dbOpen, p.slug, p.name, p.entry, fault) IN
         /\ Len(r.log_entries) <= MaxLog
         /\ log_entries' = r.log_entries
         /\ probes' = IF r.err THEN probes ELSE probes (-) SetToBag({p})
    /\ served' = "none"
    /\ UNCHANGED <<cache, request>>
    /\ UNCHANGED <<phase, dbOpen, monitors, monitorsConfig, schedPc, purgePc, now>>

(* checkMonitor from saveLogEntry on: an error is logged and the result dropped *)
ProbeSave(p, fault) ==
    /\ BagIn(p, probes)
    /\ p.pc = "save"
    /\ LET r == saveLogEntry(log_entries, monitors, dbOpen, p.slug, p.name, p.entry, fault) IN
         /\ Len(r.log_entries) <= MaxLog
         /\ log_entries' = r.log_entries
    /\ probes' = probes (-) SetToBag({p})
    /\ served' = "none"
    /\ UNCHANGED <<cache, request>>
    /\ UNCHANGED <<phase, dbOpen, monitors, monitorsConfig, schedPc, purgePc, now>>

----------------------------------------------------------------------------
(* Retention purger *)

(* The DELETE with the cutoff one second too early *)
purgeBeforeLate(log, cutoff) == SelectSeq(log, LAMBDA r : ~(r.timestamp < cutoff - 1))

(* The DELETE with LIMIT 1: only the first row below the cutoff goes *)
purgeBeforeOneRow(log, cutoff) ==
    LET old == {i \in DOMAIN log : log[i].timestamp < cutoff} IN
    IF old = {} THEN log
    ELSE LET first == CHOOSE i \in old : \A j \in old : i <= j IN
         SubSeq(log, 1, first - 1) \o SubSeq(log, first + 1, Len(log))

(* The DELETE written WHERE timestamp <= cutoff *)
purgeBeforeInclusive(log, cutoff) == SelectSeq(log, LAMBDA r : ~(r.timestamp <= cutoff))

(* DELETE FROM log_entries WHERE timestamp < cutoff *)
purgeBefore(log, cutoff) == SelectSeq(log, LAMBDA r : ~(r.timestamp < cutoff))

(* purgeOldRecords at time t: cutoff = t - retentionPeriod; an error of    *)
(* the DELETE is logged; else rowsAffected, the number of deleted rows, is  *)
(* logged.                                                                  *)
purgeOldRecords(log, open, t, fault) ==
    LET cutoff == t - retentionPeriod
        kept == purgeBefore(log, cutoff) IN
    IF open /\ ~fault
    THEN [err |-> FALSE, rowsAffected |-> Len(log) - Len(kept), log_entries |-> kept]
    ELSE [err |-> TRUE, rowsAffected |-> 0, log_entries |-> log]

(* startRetentionCron whose loop ends when a purge fails *)
PurgeStopsOnError(fault) ==
    /\ purgePc \in {"initial", "ticking"}
    /\ LET r == purgeOldRecords(log_entries, dbOpen, now, fault) IN
         /\ log_entries' = r.log_entries
         /\ purgePc' = IF r.err THEN "off" ELSE "ticking"
    /\ served' = "none"
    /\ UNCHANGED <<cache, request>>
    /\ UNCHANGED <<phase, dbOpen, monitors, monitorsConfig, probes, schedPc, now>>

(* startRetentionCron: one purge at startup, then one per tick of its ticker *)
Purge(fault) ==
    /\ purgePc \in {"initial", "ticking"}
    /\ log_entries' = purgeOldRecords(log_entries, dbOpen, now, fault).log_entries
    /\ purgePc' = "ticking"
    /\ served' = "none"
    /\ UNCHANGED <<cache, request>>
    /\ UNCHANGED <<phase, dbOpen, monitors, monitorsConfig, probes, schedPc, now>>

(* The wall clock advances *)
Tick ==
    /\ now < MaxTime
    /\ now' = now + 1
    /\ served' = "none"
    /\ UNCHANGED <<cache, request>>
    /\ UNCHANGED <<phase, dbOpen, monitors, log_entries, monitorsConfig, probes, schedPc, purgePc>>

----------------------------------------------------------------------------
(* Read queries *)

(* The loop over s.monitorsConfig that opens GetMonitorSummary and        *)
(* GetMonitorChecks                                                        *)
Configured(cfg, slug, name) ==
    \E i \in 1..Len(cfg) : cfg[i].slug = slug /\ cfg[i].name = name

(* The WHERE clause with the upper bound written timestamp < ? *)
InRangeEndExclusive(r, slug, name, start, end) ==
    /\ r.monitor_slug = slug
    /\ r.monitor_name = name
    /\ r.timestamp >= start
    /\ r.timestamp < end

(* WHERE monitor_slug = ? AND monitor_name = ? AND timestamp >= ? AND timestamp <= ? *)
InRange(r, slug, name, start, end) ==
    /\ r.monitor_slug = slug
    /\ r.monitor_name = name
    /\ r.timestamp >= start
    /\ r.timestamp <= end

(* One step of ORDER BY timestamp ASC: r goes behind every row whose      *)
(* timestamp is not larger (rows of one timestamp stay in rowid order, the *)
(* order of the index on (monitor_slug, monitor_name, timestamp)).         *)
RECURSIVE InsertAsc(_, _)
InsertAsc(sorted, r) ==
    IF sorted = <<>> THEN <<r>>
    ELSE IF sorted[Len(sorted)].timestamp <= r.timestamp
         THEN Append(sorted, r)
         ELSE Append(InsertAsc(SubSeq(sorted, 1, Len(sorted) - 1), r), sorted[Len(sorted)])

RECURSIVE SortAsc(_)
SortAsc(rows) ==
    IF rows = <<>> THEN <<>>
    ELSE InsertAsc(SortAsc(SubSeq(rows, 1, Len(rows) - 1)), rows[Len(rows)])

(* The rows latest first, as ORDER BY timestamp DESC would give them *)
OrderByTimestampDesc(rows) ==
    LET a == SortAsc(rows) IN [i \in 1..Len(a) |-> a[Len(a) + 1 - i]]

(* The rows as stored, as the query without ORDER BY would give them *)
OrderByRowid(rows) == rows

(* ORDER BY timestamp ASC *)
OrderByTimestamp(rows) == SortAsc(rows)

(* rows.Scan(&entry.Timestamp, &entry.Time, &entry.Response) *)
ScanEntries(rows) ==
    [i \in 1..Len(rows) |-> LogEntry(rows[i].timestamp, rows[i].time, rows[i].response)]

(* GetMonitorChecks: "not found in configuration" for a pair that is not  *)
(* in s.monitorsConfig, else the rows of the range in timestamp order      *)
GetMonitorChecks(cfg, log, slug, name, start, end) ==
    IF ~Configured(cfg, slug, name)
    THEN [err |-> TRUE, checks |-> <<>>]
    ELSE [err |-> FALSE,
          checks |-> ScanEntries(OrderByTimestamp(
                        SelectSeq(log, LAMBDA r : InRange(r, slug, name, start, end))))]

(* The rows of log_entries WHERE monitor_slug = ? AND monitor_name = ? *)
PairRows(log, slug, name) ==
    SelectSeq(log, LAMBDA r : r.monitor_slug = slug /\ r.monitor_name = name)

(* The response of the row that was inserted last *)
LastInsertedResponses(log, slug, name) ==
    LET rows == PairRows(log, slug, name) IN
    IF rows = <<>> THEN {} ELSE {rows[Len(rows)].response}

(* SELECT response ... ORDER BY timestamp DESC LIMIT 1: the response of a  *)
(* row with the largest timestamp. Among rows of one timestamp SQL leaves   *)
(* the first row open, so this is the set of the responses the query may    *)
(* return; the empty set stands for sql.ErrNoRows.                          *)
LatestResponses(log, slug, name) ==
    LET rows == PairRows(log, slug, name) IN
    {rows[i].response : i \in {i \in DOMAIN rows :
                                  \A j \in DOMAIN rows : rows[j].timestamp <= rows[i].timestamp}}

(* response LIKE '2%' *)
Like2Percent(response) == Len(response) >= 1 /\ response[1] = "2"

RECURSIVE SumSeq(_)
SumSeq(values) ==
    IF values = <<>> THEN 0
    ELSE SumSeq(SubSeq(values, 1, Len(values) - 1)) + values[Len(values)]

(* COALESCE(AVG(...), 0): AVG is NULL over no rows. The REAL result is the *)
(* fraction num / den.                                                      *)
CoalesceAvg(values) ==
    IF values = <<>> THEN [num |-> 0, den |-> 1]
    ELSE [num |-> SumSeq(values), den |-> Len(values)]

MonitorSummary(status, uptime, avg) ==
    [CurrentStatus |-> status, UptimePercentage24h |-> uptime, AverageResponseTime24h |-> avg]

(* The first query of GetMonitorSummary on the log: the values it may put *)
(* in summary.CurrentStatus, "No data yet" on sql.ErrNoRows                 *)
CurrentStatuses(log, slug, name) ==
    LET latest == LatestResponses(log, slug, name) IN
    IF latest = {} THEN {Chars("No data yet")} ELSE latest

(* The second query of GetMonitorSummary on the log at time t: the uptime  *)
(* and the average time over the rows of the last 24 hours                  *)
Stats24h(log, slug, name, t) ==
    LET twentyFourHoursAgo == t - twentyFourHours
        window == SelectSeq(PairRows(log, slug, name),
                            LAMBDA r : r.timestamp >= twentyFourHoursAgo)
    IN [uptime |-> CoalesceAvg([i \in 1..Len(window) |->
                      IF Like2Percent(window[i].response) THEN 100 ELSE 0]),
        avg |-> CoalesceAvg([i \in 1..Len(window) |-> window[i].time])]

(* GetMonitorSummary at time t with no write between its two queries: "not *)
(* found in configuration" for a pair that is not in s.monitorsConfig, else *)
(* the summaries the two queries may produce (one for each response that    *)
(* the first query may return).                                             *)
GetMonitorSummary(cfg, log, slug, name, t) ==
    IF ~Configured(cfg, slug, name)
    THEN [err |-> TRUE, summaries |-> {}]
    ELSE LET stats == Stats24h(log, slug, name, t)
         IN [err |-> FALSE,
             summaries |-> {MonitorSummary(st, stats.uptime, stats.avg) :
                               st \in CurrentStatuses(log, slug, name)}]

(* GetMonitors: a copy of s.monitorsConfig sorted by slug, then name.     *)
(* sort.Slice sorts a slice this short by insertion.                       *)
StrOrder == <<"a", "b", "x", "y">>
StrLess(u, v) ==
    \E i, j \in 1..Len(StrOrder) : StrOrder[i] = u /\ StrOrder[j] = v /\ i < j

MonitorLess(m1, m2) ==
    IF m1.slug # m2.slug THEN StrLess(m1.slug, m2.slug) ELSE StrLess(m1.name, m2.name)

RECURSIVE InsertMonitor(_, _)
InsertMonitor(sorted, m) ==
    IF sorted = <<>> THEN <<m>>
    ELSE IF ~MonitorLess(m, sorted[Len(sorted)])
         THEN Append(sorted, m)
         ELSE Append(InsertMonitor(SubSeq(sorted, 1, Len(sorted) - 1), m), sorted[Len(sorted)])

RECURSIVE SortMonitors(_)
SortMonitors(ms) ==
    IF ms = <<>> THEN <<>>
    ELSE InsertMonitor(SortMonitors(SubSeq(ms, 1, Len(ms) - 1)), ms[Len(ms)])

GetMonitors(cfg) == SortMonitors(cfg)

(* A GetMonitorsBySlug that reads s.monitorsConfig, as GetMonitors does *)
GetMonitorsBySlugFromConfig(reg, open, slug) ==
    LET rows == {monitorsConfig[i] : i \in {i \in DOMAIN monitorsConfig :
                                                monitorsConfig[i].slug = slug}} IN
    IF ~open THEN [err |-> "failed to query monitors", monitors |-> {}]
    ELSE IF rows = {} THEN [err |-> "no monitors found", monitors |-> {}]
    ELSE [err |-> "nil", monitors |-> rows]

(* GetMonitorsBySlug: SELECT slug, name, url FROM monitors WHERE slug = ? *)
(* on the registry table. The error of a query on a closed handle is        *)
(* "failed to query", the error over zero rows is "no monitors found".      *)
(* SQL gives the rows in no stated order: the result is the set of them.    *)
GetMonitorsBySlug(reg, open, slug) ==
    LET rows == {m \in reg : m.slug = slug} IN
    IF ~open THEN [err |-> "failed to query monitors", monitors |-> {}]
    ELSE IF rows = {} THEN [err |-> "no monitors found", monitors |-> {}]
    ELSE [err |-> "nil", monitors |-> rows]

(* A getStatus that takes a redirect for a success *)
getStatusRedirectIsUp(response) ==
    IF Len(response) = 0 THEN "unknown"
    ELSE IF response[1] = "2" \/ response[1] = "3" THEN "up"
    ELSE IF response[1] = "4" \/ response[1] = "5" THEN "down"
    ELSE IF Len(response) >= 5 /\ SubSeq(response, 1, 5) = <<"E", "r", "r", "o", "r">>
         THEN "down"
    ELSE "unknown"

(* getStatus of getSlugHistory: the class of a response by its first      *)
(* character, or by its first five                                          *)
getStatus(response) ==
    IF Len(response) = 0 THEN "unknown"
    ELSE IF response[1] = "2" THEN "up"
    ELSE IF response[1] = "4" \/ response[1] = "5" THEN "down"
    ELSE IF Len(response) >= 5 /\ SubSeq(response, 1, 5) = <<"E", "r", "r", "o", "r">>
         THEN "down"
    ELSE "unknown"

(* const days = 90 *)
days == 90

(* time.Date(now.Year(), now.Month(), now.Day(), 0, 0, 0, 0, ...): the    *)
(* start of the day of t, in seconds                                        *)
midnight(t) == t - (t % twentyFourHours)

(* dayStart.Format("2006-01-02"): the calendar day that starts at dayStart, *)
(* as the number of the day                                                 *)
FormatDate(dayStart) == dayStart \div twentyFourHours

SlugMonitorDailyHistory(date, uptime, total, up, down, unknown) ==
    [Date |-> date, UptimePercent |-> uptime, TotalChecks |-> total,
     UpChecks |-> up, DownChecks |-> down, UnknownChecks |-> unknown]

(* One turn of the loop over the days: the bucket of the day that starts  *)
(* at dayStart. UptimePercent is the fraction num / den.                    *)
DayBucket(cfg, log, m, dayStart) ==
    LET dayEnd == dayStart + twentyFourHours
        r == GetMonitorChecks(cfg, log, m.slug, m.name, dayStart, dayEnd)
        checks == r.checks
        Count(class) == Cardinality({i \in DOMAIN checks : getStatus(checks[i].response) = class})
        up == Count("up")
        down == Count("down")
        unknown == Count("unknown")
        total == up + down + unknown
    IN IF r.err \/ Len(checks) = 0
       THEN SlugMonitorDailyHistory(FormatDate(dayStart), [num |-> 0, den |-> 1], 0, 0, 0, 0)
       ELSE SlugMonitorDailyHistory(FormatDate(dayStart),
                IF total > 0 THEN [num |-> up * 100, den |-> total] ELSE [num |-> 0, den |-> 1],
                total, up, down, unknown)

(* The buckets as the loop over i appends them, today first *)
AppendedDays(cfg, log, m, t) ==
    [i \in 1..days |-> DayBucket(cfg, log, m, midnight(t) - (i - 1) * twentyFourHours)]

(* The slice reversed in place *)
Reverse(seq) == [i \in 1..Len(seq) |-> seq[Len(seq) + 1 - i]]

(* A history that leaves out the days without checks *)
dailyHistoryOmitsEmpty(cfg, log, m, t) ==
    Reverse(SelectSeq(AppendedDays(cfg, log, m, t), LAMBDA b : b.TotalChecks > 0))

(* The dailyHistory of one monitor: the appended buckets reversed, so the *)
(* oldest day is first                                                      *)
dailyHistory(cfg, log, m, t) ==
    Reverse(AppendedDays(cfg, log, m, t))

(* GET /monitors/slug/{slug}/history at time t: 404 with the error of     *)
(* GetMonitorsBySlug, else 200 with the dailyHistory of each monitor of the *)
(* slug under its name                                                      *)
getSlugHistory(reg, open, cfg, log, slug, t) ==
    LET r == GetMonitorsBySlug(reg, open, slug) IN
    IF r.err # "nil"
    THEN [status |-> 404, historyResult |-> <<>>]
    ELSE [status |-> 200,
          historyResult |->
              [n \in {m.name : m \in r.monitors} |->
                  dailyHistory(cfg, log, CHOOSE m \in r.monitors : m.name = n, t)]]

(* strconv.ParseInt(s, 10, 64): an optional sign and then decimal digits; *)
(* anything else, the empty string too, is an error                         *)
ParseInt(str) ==
    LET signed == str # <<>> /\ (str[1] = "-" \/ str[1] = "+")
        digits == IF signed THEN Tail(str) ELSE str IN
    IF ~IsDecimal(digits) THEN [err |-> TRUE, value |-> 0]
    ELSE [err |-> FALSE,
          value |-> IF str[1] = "-" THEN 0 - Atoi(digits) ELSE Atoi(digits)]

(* The length of the longest prefix of str made of digits, and of the one  *)
(* made of no digit                                                         *)
RECURSIVE DigitsLen(_)
DigitsLen(str) ==
    IF str = <<>> \/ ~IsDigit(str[1]) THEN 0 ELSE 1 + DigitsLen(Tail(str))

RECURSIVE UnitLen(_)
UnitLen(str) ==
    IF str = <<>> \/ IsDigit(str[1]) THEN 0 ELSE 1 + UnitLen(Tail(str))

(* The units time.ParseDuration knows that are whole seconds, in seconds;  *)
(* there is no unit for days                                                *)
unitMap == [u \in {<<"s">>, <<"m">>, <<"h">>} |->
               CASE u = <<"s">> -> 1 [] u = <<"m">> -> 60 [] u = <<"h">> -> 3600]

(* The segments of a duration string after its sign: digits and a unit,    *)
(* once or more; the seconds they add up to, or an error                    *)
RECURSIVE ParseSegments(_)
ParseSegments(str) ==
    LET n == DigitsLen(str)
        rest == SubSeq(str, n + 1, Len(str))
        u == UnitLen(rest)
        unit == SubSeq(rest, 1, u)
        tail == SubSeq(rest, u + 1, Len(rest)) IN
    IF n = 0 \/ u = 0 \/ unit \notin DOMAIN unitMap
    THEN [err |-> TRUE, seconds |-> 0]
    ELSE IF tail = <<>>
         THEN [err |-> FALSE, seconds |-> Atoi(SubSeq(str, 1, n)) * unitMap[unit]]
         ELSE LET more == ParseSegments(tail) IN
              [err |-> more.err,
               seconds |-> Atoi(SubSeq(str, 1, n)) * unitMap[unit] + more.seconds]

(* time.ParseDuration for strings without a fraction: an optional sign,    *)
(* then "0" or segments                                                     *)
ParseDuration(str) ==
    LET signed == str # <<>> /\ (str[1] = "-" \/ str[1] = "+")
        body == IF signed THEN Tail(str) ELSE str
        r == ParseSegments(body) IN
    IF body = <<"0">> THEN [err |-> FALSE, seconds |-> 0]
    ELSE IF r.err THEN [err |-> TRUE, seconds |-> 0]
    ELSE [err |-> FALSE,
          seconds |-> IF str[1] = "-" THEN 0 - r.seconds ELSE r.seconds]

(* The duration parseTimeRange takes from a range that is not empty: the   *)
(* three day presets are looked at only after ParseDuration returned no     *)
(* error                                                                    *)
rangeDuration(rangeStr) ==
    LET d == ParseDuration(rangeStr) IN
    IF ~d.err
    THEN IF rangeStr = <<"7", "d">> THEN [err |-> FALSE, seconds |-> 7 * 24 * unitMap[<<"h">>]]
         ELSE IF rangeStr = <<"3", "0", "d">>
              THEN [err |-> FALSE, seconds |-> 30 * 24 * unitMap[<<"h">>]]
         ELSE IF rangeStr = <<"9", "0", "d">>
              THEN [err |-> FALSE, seconds |-> 90 * 24 * unitMap[<<"h">>]]
         ELSE d
    ELSE d

TimeRange(err, start, end) == [err |-> err, startTime |-> start, endTime |-> end]

(* parseTimeRange of a request with the query parameters q at second t *)
parseTimeRange(q, t) ==
    LET parsedEnd == ParseInt(q.end_time)
        endTime == IF q.end_time # <<>> THEN parsedEnd.value ELSE t
        parsedStart == ParseInt(q.start_time)
        duration == IF q.range # <<>> THEN rangeDuration(q.range)
                    ELSE [err |-> FALSE, seconds |-> 24 * unitMap[<<"h">>]] IN
    IF q.end_time # <<>> /\ parsedEnd.err
    THEN TimeRange("invalid end_time parameter", 0, 0)
    ELSE IF q.start_time # <<>>
         THEN IF parsedStart.err THEN TimeRange("invalid start_time parameter", 0, 0)
              ELSE IF parsedStart.value > endTime
                   THEN TimeRange("start_time cannot be after end_time", 0, 0)
              ELSE TimeRange("nil", parsedStart.value, endTime)
    ELSE IF duration.err THEN TimeRange("invalid range parameter", 0, 0)
    ELSE TimeRange("nil", t - duration.seconds, endTime)

(* GetMonitorSummary up to the end of its first query (QueryRow ... Scan of *)
(* the latest response): the status is in the summary, the statistics are   *)
(* not yet read                                                             *)
SummaryStatus(slug, name) ==
    /\ phase = "running"
    /\ request.pc \in {"idle", "done"}
    /\ Configured(monitorsConfig, slug, name)
    /\ \E st \in CurrentStatuses(log_entries, slug, name) :
          request' = [pc |-> "stats", slug |-> slug, name |-> name,
                      summary |-> MonitorSummary(st, [num |-> 0, den |-> 1], [num |-> 0, den |-> 1])]
    /\ served' = "none"
    /\ UNCHANGED <<phase, dbOpen, monitors, log_entries, monitorsConfig, probes,
                   schedPc, purgePc, now, cache>>

(* GetMonitorSummary from its second query to its return: the statistics  *)
(* are read from the log as it is now                                       *)
SummaryStats ==
    /\ phase = "running"
    /\ request.pc = "stats"
    /\ LET stats == Stats24h(log_entries, request.slug, request.name, now) IN
         request' = [request EXCEPT !.pc = "done",
                         !.summary = MonitorSummary(request.summary.CurrentStatus,
                                                    stats.uptime, stats.avg)]
    /\ served' = "GetMonitorSummary"
    /\ UNCHANGED <<phase, dbOpen, monitors, log_entries, monitorsConfig, probes,
                   schedPc, purgePc, now, cache>>

(* A request served by a GetMonitors that sorts s.monitorsConfig itself *)
ListMonitorsInPlace ==
    /\ phase = "running"
    /\ served' = "GetMonitors"
    /\ UNCHANGED <<cache, request>>
    /\ monitorsConfig' = GetMonitors(monitorsConfig)
    /\ UNCHANGED <<phase, dbOpen, monitors, log_entries, probes, schedPc, purgePc, now>>

(* A request GET /monitors served by GetMonitors: the sort works on the   *)
(* slice that make and copy built                                           *)
ListMonitors ==
    /\ phase = "running"
    /\ Len(GetMonitors(monitorsConfig)) = Len(monitorsConfig)
    /\ served' = "GetMonitors"
    /\ UNCHANGED <<cache, request>>
    /\ UNCHANGED <<phase, dbOpen, monitors, log_entries, monitorsConfig, probes,
                   schedPc, purgePc, now>>

(* A request served by a query that also deletes the rows it returns *)
ListChecksConsuming(slug, name, start, end) ==
    /\ phase = "running"
    /\ served' = "GetMonitorChecks"
    /\ UNCHANGED <<cache, request>>
    /\ log_entries' = SelectSeq(log_entries, LAMBDA r : ~InRange(r, slug, name, start, end))
    /\ UNCHANGED <<phase, dbOpen, monitors, monitorsConfig, probes, schedPc, purgePc, now>>

(* A request GET /monitors/{slug}/{name}/checks served by GetMonitorChecks *)
ListChecks(slug, name, start, end) ==
    /\ phase = "running"
    /\ GetMonitorChecks(monitorsConfig, log_entries, slug, name, start, end).err \in BOOLEAN
    /\ served' = "GetMonitorChecks"
    /\ UNCHANGED <<cache, request>>
    /\ UNCHANGED <<phase, dbOpen, monitors, log_entries, monitorsConfig, probes,
                   schedPc, purgePc, now>>

Next ==
    \/ Start
    \/ Exit
    \/ NewService
    \/ Pass
    \/ \E p \in BagToSet(probes) : ProbeDone(p)
    \/ \E p \in BagToSet(probes), fault \in BOOLEAN : ProbeSave(p, fault)
    \/ \E fault \in BOOLEAN : Purge(fault)
    \/ Tick

Spec == Init /\ [][Next]_vars

(* The engine with the shutdown of main in its two steps, Close and the  *)
(* return of main                                                           *)
NextClose ==
    \/ Next
    \/ Close
    \/ ExitAfterClose

SpecClose == Init /\ [][NextClose]_vars

(* The engine on a store that works: the transaction of Start commits    *)
(* every INSERT, and the INSERT of saveLogEntry and the DELETE of           *)
(* purgeOldRecords fail for no reason of the store's own.                   *)
StartWorkingStore ==
    \/ StartLoadError
    \/ StartEmpty
    \/ \E cfg \in ConfigLists : StartMonitors(cfg, "none", {})

NextWorkingStore ==
    \/ StartWorkingStore
    \/ Exit
    \/ NewService
    \/ Pass
    \/ \E p \in BagToSet(probes) : ProbeDone(p)
    \/ \E p \in BagToSet(probes) : ProbeSave(p, FALSE)
    \/ Purge(FALSE)
    \/ Tick

SpecWorkingStore == Init /\ [][NextWorkingStore]_vars

(* Every monitor a configuration can name, and every probe a pass can    *)
(* have in flight: waiting in http.Get, or holding its logEntry             *)
AllMonitors == UNION { { cfg[i] : i \in DOMAIN cfg } : cfg \in ConfigLists }

AllProbes ==
    { NewProbe(m) : m \in AllMonitors }
        \cup { [NewProbe(m) EXCEPT !.pc = "save",
                                   !.entry = LogEntry(t, httpGet(m.url).ms,
                                                      responseCode(httpGet(m.url)))] :
                 m \in AllMonitors, t \in 0..MaxTime }

(* The running engine on a working store, without the end of the process *)
NextLive ==
    \/ StartWorkingStore
    \/ Pass
    \/ \E p \in BagToSet(probes) : ProbeDone(p)
    \/ \E p \in BagToSet(probes) : ProbeSave(p, FALSE)
    \/ Purge(FALSE)
    \/ Tick

(* The Go scheduler runs every goroutine that can run: a checkMonitor     *)
(* whose Get can return goes on to its logEntry, and one that holds its     *)
(* logEntry goes on through saveLogEntry.                                   *)
Fairness ==
    \A p \in AllProbes :
        /\ WF_vars(ProbeDone(p))
        /\ WF_vars(ProbeSave(p, FALSE))

SpecLive == Init /\ [][NextLive]_vars /\ Fairness

(* The history handler as a function of the store: the service runs with *)
(* the list (b,y), (b,x); the log holds no row, one row or two rows of      *)
(* (b,x), stamped at any second up to now, with any response checkMonitor   *)
(* can have written (a status of each class, a transport error) or none.    *)
Outcomes ==
    { Sprintd(200), Sprintd(404), Sprintd(503), Sprintd(301), Sprintd(100),
      Chars("Error: ") \o Chars("EOF"), <<>> }

HistoryRows(t) ==
    { Row("b", "x", LogEntry(ts, 10, o)) : ts \in 0..t, o \in Outcomes }

HistoryLogs(t) ==
    {<<>>} \cup { <<r>> : r \in HistoryRows(t) }
           \cup { <<r1, r2>> : r1 \in HistoryRows(t), r2 \in HistoryRows(t) }

InitHistory ==
    /\ phase = "running"
    /\ dbOpen = TRUE
    /\ monitorsConfig = <<MH1, MB1>>
    /\ monitors = {MH1, MB1}
    /\ now \in (MaxTime - 1)..MaxTime
    /\ log_entries \in HistoryLogs(now)
    /\ probes = EmptyBag
    /\ schedPc = "ticking"
    /\ purgePc = "ticking"
    /\ served = "none"
    /\ cache = {}
    /\ request = Idle

(* A request GET /monitors/slug/{slug}/history *)
ServeHistory ==
    /\ phase = "running"
    /\ \E slug \in {"a", "b"} :
          getSlugHistory(monitors, dbOpen, monitorsConfig, log_entries, slug, now).status
              \in {200, 404}
    /\ served' = "getSlugHistory"
    /\ UNCHANGED <<cache, request>>
    /\ UNCHANGED <<phase, dbOpen, monitors, log_entries, monitorsConfig, probes,
                   schedPc, purgePc, now>>

NextHistory == ServeHistory

SpecHistory == InitHistory /\ [][NextHistory]_vars

(* parseTimeRange as a function of the request and the clock, in seconds: *)
(* a request comes with or without each of end_time, start_time and range,  *)
(* at a second before or after the ninetieth day.                           *)
RequestTimes == {100000, 8000000}

EndTimes == {<<>>, Sprintd(0), Sprintd(7000000), Sprintd(9000000), <<"x">>}

StartTimes == {<<>>, Sprintd(50), Sprintd(7500000), <<"-", "5">>, <<"1", "h">>}

Ranges ==
    {<<>>, <<"1", "h">>, <<"2", "4", "h">>, <<"7", "d">>, <<"3", "0", "d">>,
     <<"9", "0", "d">>, <<"1", "h", "3", "0", "m">>, <<"-", "1", "h">>, <<"h">>}

Queries == [end_time : EndTimes, start_time : StartTimes, range : Ranges]

InitTimeRange ==
    /\ phase = "running"
    /\ dbOpen = TRUE
    /\ monitorsConfig = <<MA1>>
    /\ monitors = {MA1}
    /\ now \in RequestTimes
    /\ log_entries = <<>>
    /\ probes = EmptyBag
    /\ schedPc = "ticking"
    /\ purgePc = "ticking"
    /\ served = [kind |-> "none"]
    /\ cache = {}
    /\ request = Idle

(* A request GET /monitors/{slug}/{name}/checks up to the return of        *)
(* parseTimeRange                                                           *)
ServeTimeRange ==
    /\ phase = "running"
    /\ \E q \in Queries :
          served' = [kind |-> "parseTimeRange", query |-> q, result |-> parseTimeRange(q, now)]
    /\ UNCHANGED <<cache, request>>
    /\ UNCHANGED <<phase, dbOpen, monitors, log_entries, monitorsConfig, probes,
                   schedPc, purgePc, now>>

NextTimeRange == ServeTimeRange

SpecTimeRange == InitTimeRange /\ [][NextTimeRange]_vars

(* The running engine together with calls of GetMonitorSummary, each in  *)
(* its two queries                                                          *)
NextSummary ==
    \/ NextLive
    \/ \E k \in QueryKeys : SummaryStatus(k[1], k[2])
    \/ SummaryStats

SpecSummary == Init /\ [][NextSummary]_vars

----------------------------------------------------------------------------
(* The summary cache of the API handler *)

(* Two identities whose slug or name holds the underscore *)
MU1 == [slug |-> "a_b", name |-> "c", url |-> "u1"]
MU2 == [slug |-> "a", name |-> "b_c", url |-> "u3"]

CacheConfigs == { <<MU1, MU2>>, <<MU1>>, <<MU2, MA1>> }

(* The identities a summary request may name *)
CacheKeys == { Key(MU1), Key(MU2), Key(MA1) }

(* The rows the probes of the monitors of cfg may have written *)
CacheRows(cfg) ==
    { Row(m.slug, m.name, LogEntry(0, 10, o)) :
          m \in Range(cfg), o \in {Sprintd(200), Sprintd(503)} }

CacheLogs(cfg) ==
    {<<>>} \cup { <<r>> : r \in CacheRows(cfg) }
           \cup { <<r1, r2>> : r1 \in CacheRows(cfg), r2 \in CacheRows(cfg) }

(* cache.New(60*time.Second, 5*time.Minute): the default expiration, in   *)
(* ticks of the clock of the model                                          *)
defaultExpiration == 1

(* cacheKey := "summary_" + slug + "_" + name *)
cacheKey(slug, name) == "summary_" \o slug \o "_" \o name

(* h.cache.Get(key) at time t: the value of the item under the key, unless  *)
(* the item has expired                                                     *)
cacheGet(c, key, t) == { item.value : item \in {i \in c : i.key = key /\ t <= i.expiration} }

(* h.cache.Set(key, value, cache.DefaultExpiration) at time t: the item     *)
(* replaces the one under the key                                           *)
cacheSet(c, key, value, t) ==
    {i \in c : i.key # key}
        \cup {[key |-> key, value |-> value, expiration |-> t + defaultExpiration]}

(* A running service between two passes, with the rows its probes wrote *)
InitCache ==
    /\ phase = "running"
    /\ dbOpen = TRUE
    /\ monitorsConfig \in CacheConfigs
    /\ monitors = Range(monitorsConfig)
    /\ now = 0
    /\ log_entries \in CacheLogs(monitorsConfig)
    /\ probes = EmptyBag
    /\ schedPc = "ticking"
    /\ purgePc = "ticking"
    /\ served = [kind |-> "none"]
    /\ cache = {}
    /\ request = Idle

(* The handler getMonitorSummary: the cached value under cacheKey if there *)
(* is one; else GetMonitorSummary, whose error is answered 404 and whose    *)
(* summary is stored under cacheKey and answered 200.                       *)
getMonitorSummary(slug, name) ==
    /\ phase = "running"
    /\ LET cachedSummary == cacheGet(cache, cacheKey(slug, name), now)
           r == GetMonitorSummary(monitorsConfig, log_entries, slug, name, now) IN
         IF cachedSummary # {}
         THEN /\ \E v \in cachedSummary :
                    served' = [kind |-> "getMonitorSummary", slug |-> slug, name |-> name,
                               status |-> 200, body |-> v]
              /\ cache' = cache
         ELSE IF r.err
         THEN /\ served' = [kind |-> "getMonitorSummary", slug |-> slug, name |-> name,
                            status |-> 404,
                            body |-> [error |-> "Monitor not found or no data available"]]
              /\ cache' = cache
         ELSE \E summary \in r.summaries :
                 /\ served' = [kind |-> "getMonitorSummary", slug |-> slug, name |-> name,
                               status |-> 200, body |-> summary]
                 /\ cache' = cacheSet(cache, cacheKey(slug, name), summary, now)
    /\ UNCHANGED request
    /\ UNCHANGED <<phase, dbOpen, monitors, log_entries, monitorsConfig, probes,
                   schedPc, purgePc, now>>

(* Summary requests against a log that no probe and no purge changes in   *)
(* the meantime, while the clock runs                                       *)
(* The wall clock advances between two requests *)
TickCache ==
    /\ now < MaxTime
    /\ now' = now + 1
    /\ UNCHANGED <<phase, dbOpen, monitors, log_entries, monitorsConfig, probes,
                   schedPc, purgePc, served, cache, request>>

NextCache ==
    \/ \E k \in CacheKeys : getMonitorSummary(k[1], k[2])
    \/ TickCache

SpecCache == InitCache /\ [][NextCache]_vars

(* The engine together with the requests of the API layer *)
Query ==
    \/ \E k \in QueryKeys, r \in QueryRanges : ListChecks(k[1], k[2], r[1], r[2])
    \/ ListMonitors

NextApi == Next \/ Query

SpecApi == Init /\ [][NextApi]_vars
----------------------------------------------------------------------------
(* Properties *)

RegistryKeys(reg) == {Key(m) : m \in reg}

RowKey(r) == <<r.monitor_slug, r.monitor_name>>

RowEntry(r) == LogEntry(r.timestamp, r.time, r.response)

(* The rows of the log that belong to the pair k *)
RowsOf(log, k) == {i \in DOMAIN log : RowKey(log[i]) = k}

(* What GetMonitorChecks returns for the pair k in the current state *)
Checks(k, start, end) ==
    GetMonitorChecks(monitorsConfig, log_entries, k[1], k[2], start, end)

(* A step in which Start returns nil *)
IsStartOk == phase = "new" /\ phase' = "running"

(* A step in which Start has called addMonitorsToDB *)
IsReplace == phase = "new" /\ monitorsConfig' # <<>>

(* C1: a Start that returns nil keeps every observation of a monitor that *)
(* is still configured and whose timestamp is not below now minus the      *)
(* retention period, and GetMonitorChecks still returns it.                *)
C1_LogPersistsAcrossRestart ==
    [][IsStartOk =>
        \A i \in DOMAIN log_entries :
            LET r == log_entries[i] IN
            (Configured(monitorsConfig', r.monitor_slug, r.monitor_name)
               /\ r.timestamp >= now - retentionPeriod)
            => /\ \E j \in DOMAIN log_entries' : log_entries'[j] = r
               /\ \E c \in Range(GetMonitorChecks(monitorsConfig', log_entries',
                                  r.monitor_slug, r.monitor_name,
                                  r.timestamp, r.timestamp).checks) : c = RowEntry(r)
      ]_vars

(* C2: in a started service every row of the registry is a monitor of the *)
(* loaded configuration (no row of an earlier registry survives), also     *)
(* when the loaded list is empty.                                          *)
C2_RegistryIsLoadedConfig ==
    phase = "running" => monitors \subseteq Range(monitorsConfig)

C4_UniqueIdentity ==
    /\ \A r1, r2 \in monitors : Key(r1) = Key(r2) => r1 = r2
    /\ LET l == GetMonitors(monitorsConfig) IN
         \A i, j \in DOMAIN l : i # j => Key(l[i]) # Key(l[j])

(* Every row of the log references a row of the registry *)
ReferentialIntegrity ==
    \A i \in DOMAIN log_entries : RowKey(log_entries[i]) \in RegistryKeys(monitors)

(* A step in which a checkMonitor goroutine ends after saveLogEntry for a *)
(* pair that is not in the registry                                        *)
IsUnregisteredSave ==
    /\ phase' = phase
    /\ \E p \in BagToSet(probes) :
          /\ p.pc = "save"
          /\ probes' = probes (-) SetToBag({p})
          /\ <<p.slug, p.name>> \notin RegistryKeys(monitors)

(* C5: every row of the log references a row of the registry, in every    *)
(* state, and an append for a pair that is not in the registry leaves the  *)
(* log unchanged.                                                          *)
C5_ReferentialIntegrity ==
    /\ []ReferentialIntegrity
    /\ [][IsUnregisteredSave => log_entries' = log_entries]_vars

(* A probe of a pair that is not in the registry is about to be saved,    *)
(* while the log holds a row of another pair                               *)
C5_Witness ==
    /\ log_entries # <<>>
    /\ \E p \in BagToSet(probes) :
          p.pc = "save" /\ <<p.slug, p.name>> \notin RegistryKeys(monitors)

(* C6: in a started service the log holds no observation of a pair that   *)
(* the loaded configuration does not contain.                              *)
C6_RemovedMonitorHasNoObservations ==
    phase = "running" =>
        \A i \in DOMAIN log_entries :
            Configured(monitorsConfig, log_entries[i].monitor_slug, log_entries[i].monitor_name)

(* The number of places of the sequence c that hold e *)
Occurrences(c, e) == Cardinality({i \in DOMAIN c : c[i] = e})

(* The number of rows of the pair k with a timestamp in [start, end] that *)
(* hold the entry e                                                        *)
RowsInRange(k, e, start, end) ==
    Cardinality({i \in RowsOf(log_entries, k) :
                    /\ start <= log_entries[i].timestamp
                    /\ log_entries[i].timestamp <= end
                    /\ RowEntry(log_entries[i]) = e})

(* C7: for a configured pair and any start and end, GetMonitorChecks      *)
(* returns every row of the pair with start <= timestamp <= end, each as   *)
(* often as the log holds it, and nothing else.                            *)
C7_ChecksAreTheRowsInRange ==
    \A k \in QueryKeys, r \in QueryRanges :
        Configured(monitorsConfig, k[1], k[2]) =>
            LET c == Checks(k, r[1], r[2]) IN
            /\ ~c.err
            /\ \A e \in Range(c.checks) \cup {RowEntry(log_entries[i]) : i \in DOMAIN log_entries} :
                  Occurrences(c.checks, e) = RowsInRange(k, e, r[1], r[2])

(* A query that returns a row on the bound of its range and leaves out a  *)
(* row of the same pair one second outside of it                           *)
C7_Witness ==
    \E k \in QueryKeys, r \in QueryRanges :
        /\ Configured(monitorsConfig, k[1], k[2])
        /\ Len(Checks(k, r[1], r[2]).checks) = 1
        /\ Checks(k, r[1], r[2]).checks[1].timestamp = r[2]
        /\ \E i \in RowsOf(log_entries, k) : log_entries[i].timestamp = r[1] - 1

(* C8 as claimed: consecutive entries of the list have strictly           *)
(* increasing timestamps.                                                  *)
C8_StrictlyAscending ==
    \A k \in QueryKeys, r \in QueryRanges :
        LET c == Checks(k, r[1], r[2]).checks IN
        \A i \in 1..(Len(c) - 1) : c[i].timestamp < c[i + 1].timestamp

(* C8: consecutive entries of the list have increasing timestamps, or the *)
(* same timestamp when the log holds two rows of the pair with one         *)
(* timestamp (two probes that completed within one second).                *)
C8_AscendingUpToSameSecond ==
    \A k \in QueryKeys, r \in QueryRanges :
        LET c == Checks(k, r[1], r[2]).checks IN
        \A i \in 1..(Len(c) - 1) :
            \/ c[i].timestamp < c[i + 1].timestamp
            \/ /\ c[i].timestamp = c[i + 1].timestamp
               /\ \E a, b \in RowsOf(log_entries, k) :
                     /\ a # b
                     /\ log_entries[a].timestamp = c[i].timestamp
                     /\ log_entries[b].timestamp = c[i].timestamp

(* A list with two entries of one second *)
C8_Witness ==
    \E k \in QueryKeys, r \in QueryRanges :
        LET c == Checks(k, r[1], r[2]).checks IN
        /\ Len(c) = 2
        /\ c[1].timestamp = c[2].timestamp

(* C9: each entry's timestamp is at least the timestamp of the entry      *)
(* before it, whatever the order of the rows in the log.                   *)
C9_NonDecreasing ==
    \A k \in QueryKeys, r \in QueryRanges :
        LET c == Checks(k, r[1], r[2]).checks IN
        \A i, j \in DOMAIN c : i < j => c[i].timestamp <= c[j].timestamp

(* The log holds a row of a pair before a row of the same pair with a     *)
(* smaller timestamp, and the query returns both                           *)
C9_Witness ==
    \E k \in QueryKeys :
        /\ Len(Checks(k, 0, MaxTime).checks) = 2
        /\ \E a, b \in RowsOf(log_entries, k) :
              a < b /\ log_entries[a].timestamp > log_entries[b].timestamp

(* C10: a step that serves GetMonitorChecks changes neither the registry  *)
(* nor the log, nor the configuration GetMonitorChecks reads, so that the  *)
(* same call made again, with no write or purge between the two, reads the *)
(* same rows and returns the same list.                                    *)
C10_ListChecksReadOnly ==
    [][served' = "GetMonitorChecks" =>
        /\ monitors' = monitors
        /\ log_entries' = log_entries
        /\ monitorsConfig' = monitorsConfig
        /\ dbOpen' = dbOpen
      ]_vars

(* A call has been served that returned a row *)
C10_Witness ==
    /\ served = "GetMonitorChecks"
    /\ \E k \in QueryKeys : Len(Checks(k, 0, MaxTime).checks) > 0

(* What GetMonitorSummary returns for the pair k in the current state *)
Summary(k) == GetMonitorSummary(monitorsConfig, log_entries, k[1], k[2], now)

(* C11: in a started service GetMonitorSummary returns a summary and no   *)
(* error for every (slug, name) of the registry.                           *)
C11_SummarizeNeverFails ==
    phase = "running" =>
        \A m \in monitors :
            LET s == Summary(Key(m)) IN ~s.err /\ s.summaries # {}

(* C12: in a started service GetMonitorSummary and GetMonitorChecks return *)
(* the not-found error exactly for the pairs that are not in the registry,  *)
(* and return no data with it.                                              *)
C12_NotFoundIffUnregistered ==
    phase = "running" =>
        \A k \in QueryKeys :
            LET s == Summary(k)
                c == Checks(k, 0, MaxTime) IN
            /\ s.err <=> k \notin RegistryKeys(monitors)
            /\ c.err <=> k \notin RegistryKeys(monitors)
            /\ s.err => s.summaries = {}
            /\ c.err => c.checks = <<>>

(* C13: for a configured pair CurrentStatus is the response of a row of    *)
(* the pair whose timestamp no other row of the pair exceeds, and it is     *)
(* "No data yet" exactly when the log holds no row of the pair.             *)
C13_CurrentStatusIsLatest ==
    \A k \in QueryKeys :
        Configured(monitorsConfig, k[1], k[2]) =>
            LET s == Summary(k)
                rows == RowsOf(log_entries, k) IN
            /\ ~s.err
            /\ s.summaries # {}
            /\ \A x \in s.summaries :
                  /\ (x.CurrentStatus = Chars("No data yet")) <=> (rows = {})
                  /\ rows # {} =>
                        \E i \in rows :
                            /\ log_entries[i].response = x.CurrentStatus
                            /\ \A j \in rows :
                                  log_entries[j].timestamp <= log_entries[i].timestamp

(* The log holds the latest row of a pair before an older row of the pair  *)
(* with another response, and the summary shows the response of the latest  *)
C13_Witness ==
    \E k \in QueryKeys :
        \E a, b \in RowsOf(log_entries, k) :
            /\ a < b
            /\ log_entries[a].timestamp > log_entries[b].timestamp
            /\ log_entries[a].response # log_entries[b].response
            /\ ~Summary(k).err
            /\ \A x \in Summary(k).summaries : x.CurrentStatus = log_entries[a].response

(* The response is the decimal form of a status 200..299 *)
Is2xx(response) ==
    /\ Len(response) = 3
    /\ response[1] = "2"
    /\ \A i \in 2..3 : \E d \in 0..9 : response[i] = Digit(d)

(* The rows of the pair k with a timestamp in the last 24 hours *)
Window24h(k) ==
    {i \in RowsOf(log_entries, k) : log_entries[i].timestamp >= now - twentyFourHours}

(* C14: for a configured pair, UptimePercentage24h is 100 times the rows   *)
(* of the last 24 hours with a 2xx response over the rows of the last 24    *)
(* hours, AverageResponseTime24h is the mean of their time, and both are 0  *)
(* when there is no such row.                                               *)
C14_UptimeIs2xxShare ==
    \A k \in QueryKeys :
        Configured(monitorsConfig, k[1], k[2]) =>
            LET w == Window24h(k)
                n == Cardinality(w)
                n2xx == Cardinality({i \in w : Is2xx(log_entries[i].response)})
                times == SumSeq([i \in 1..Len(log_entries) |->
                                    IF i \in w THEN log_entries[i].time ELSE 0]) IN
            \A x \in Summary(k).summaries :
                LET u == x.UptimePercentage24h
                    a == x.AverageResponseTime24h IN
                IF n = 0
                THEN u.num = 0 /\ a.num = 0
                ELSE /\ u.num * n = 100 * n2xx * u.den
                     /\ a.num * n = times * a.den

(* The cutoff of a purge cycle that starts now *)
Cutoff == now - retentionPeriod

(* The rows of log with a timestamp below the cutoff c *)
Expired(log, c) == {i \in DOMAIN log : log[i].timestamp < c}

(* A step of the purger: of a started service whose purger runs, with the *)
(* clock, the goroutines in flight and the configuration as they were       *)
IsPurgeCycle ==
    /\ phase = "running"
    /\ purgePc \in {"initial", "ticking"}
    /\ now' = now
    /\ probes' = probes
    /\ monitorsConfig' = monitorsConfig
    /\ served' = "none"

(* A purge cycle whose DELETE succeeded *)
IsPurgeOk ==
    /\ IsPurgeCycle
    /\ log_entries' = purgeOldRecords(log_entries, dbOpen, now, FALSE).log_entries

(* C15: when a purge cycle has completed without error, the log holds no  *)
(* row with a timestamp below its cutoff now - retentionPeriod.             *)
C15_NoExpiredRowAfterPurge ==
    [][IsPurgeOk => Expired(log_entries', Cutoff) = {}]_vars

(* A purge cycle is about to run on a log with a row below the cutoff and *)
(* a row not below it                                                       *)
C15_Witness ==
    /\ phase = "running"
    /\ purgePc = "initial"
    /\ dbOpen
    /\ Expired(log_entries, Cutoff) # {}
    /\ Expired(log_entries, Cutoff) # DOMAIN log_entries

(* C16: a purge with the cutoff of a purge that has just succeeded, with  *)
(* no write in between, deletes no row and leaves the log as it is; for     *)
(* every log the service reaches and every cutoff.                          *)
C16_PurgeIdempotent ==
    \A t \in 0..(MaxTime + retentionPeriod) :
        LET first == purgeOldRecords(log_entries, TRUE, t, FALSE)
            second == purgeOldRecords(first.log_entries, TRUE, t, FALSE) IN
        /\ ~second.err
        /\ second.rowsAffected = 0
        /\ second.log_entries = first.log_entries
        /\ purgeBefore(purgeBefore(log_entries, t), t) = purgeBefore(log_entries, t)

(* The purger runs on a log with two rows below the cutoff *)
C16_Witness ==
    /\ phase = "running"
    /\ purgePc = "ticking"
    /\ dbOpen
    /\ Cardinality(Expired(log_entries, Cutoff)) = 2

(* The rows of log with a timestamp not below the cutoff c, in rowid order *)
NotExpired(log, c) == SelectSeq(log, LAMBDA r : r.timestamp >= c)

(* C17: a purge cycle leaves every row with timestamp >= cutoff (the rows *)
(* with timestamp = cutoff too) and the registry as they were and adds no   *)
(* row, and the count it logs is the number of rows it removed.             *)
C17_PurgeDeletesOnlyExpired ==
    /\ [](LET r == purgeOldRecords(log_entries, dbOpen, now, FALSE) IN
            ~r.err =>
                /\ r.rowsAffected = Cardinality(Expired(log_entries, Cutoff))
                /\ r.rowsAffected = Len(log_entries) - Len(r.log_entries))
    /\ [][IsPurgeCycle =>
            /\ monitors' = monitors
            /\ NotExpired(log_entries', Cutoff) = NotExpired(log_entries, Cutoff)
            /\ Expired(log_entries', Cutoff) \in {{}, Expired(log_entries, Cutoff)}
         ]_vars

(* A purge cycle is about to run on a log with a row of timestamp = cutoff *)
(* behind a row below the cutoff                                            *)
C17_Witness ==
    /\ phase = "running"
    /\ purgePc \in {"initial", "ticking"}
    /\ dbOpen
    /\ monitors # {}
    /\ \E i, j \in DOMAIN log_entries :
          /\ i < j
          /\ log_entries[i].timestamp < Cutoff
          /\ log_entries[j].timestamp = Cutoff

(* C18: in a started service the purger runs (its first cycle is due or   *)
(* done and its ticker is armed), whatever list Start loaded.               *)
C18_PurgerRunsWhenStarted ==
    phase = "running" => purgePc \in {"initial", "ticking"}

(* C19: a purge cycle that fails (it leaves a row below its cutoff) leaves *)
(* the purger in its ticker loop, and the probe scheduler, the process, the *)
(* database handle and the store as they were.                              *)
C19_FailedPurgeIsIsolated ==
    [][(IsPurgeCycle /\ Expired(log_entries', Cutoff) # {}) =>
          /\ purgePc' = "ticking"
          /\ schedPc' = schedPc
          /\ phase' = "running"
          /\ dbOpen' = dbOpen
          /\ log_entries' = log_entries
          /\ monitors' = monitors
      ]_vars

(* The first purge cycle is about to run while the scheduler is in its    *)
(* ticker loop and the log holds a row below the cutoff                     *)
C19_Witness ==
    /\ phase = "running"
    /\ purgePc = "initial"
    /\ schedPc = "ticking"
    /\ Expired(log_entries, Cutoff) # {}

(* A step of the scheduler that launches probes *)
IsPass ==
    /\ schedPc \in {"initial", "ticking"}
    /\ schedPc' = "ticking"
    /\ BagCardinality(probes') > BagCardinality(probes)

(* C20: a Start that returns nil leaves the first pass due at once, and   *)
(* every pass launches one probe for every monitor of the registry and no   *)
(* other probe.                                                             *)
C20_PassProbesEachRegisteredMonitorOnce ==
    [][/\ (IsStartOk /\ monitors' # {}) => schedPc' = "initial"
       /\ IsPass =>
            LET launched == probes' (-) probes IN
            /\ \A m \in monitors : CopiesIn(NewProbe(m), launched) = 1
            /\ BagCardinality(launched) = Cardinality(monitors)
      ]_vars

(* C21: the scheduler's next pass is ready to run whatever probes are in  *)
(* flight: nothing but the bounds of the model keeps it from launching      *)
(* while probes of earlier passes have not finished.                        *)
C21_PassNeverWaits ==
    (/\ schedPc \in {"initial", "ticking"}
     /\ Room(probes, log_entries, Len(monitorsConfig)))
    => ENABLED Pass

(* Two probes of the one monitor of the list are in flight: the second    *)
(* pass was launched while the probe of the first had not finished          *)
C21_Witness ==
    /\ monitorsConfig = <<MA1>>
    /\ schedPc = "ticking"
    /\ CopiesIn(NewProbe(MA1), probes) = 2

(* A step in which the http.Get of the probe p returns *)
GetReturned(p) ==
    /\ p.pc = "get"
    /\ CopiesIn(p, probes') = CopiesIn(p, probes) - 1
    /\ BagCardinality(probes') = BagCardinality(probes)

(* A step in which the goroutine of the probe p ends after saveLogEntry *)
ProbeEnded(p) ==
    /\ p.pc = "save"
    /\ CopiesIn(p, probes') = CopiesIn(p, probes) - 1
    /\ BagCardinality(probes') = BagCardinality(probes) - 1
    /\ monitorsConfig' = monitorsConfig

(* The response of a failed probe: a transport error or a status that is  *)
(* not 2xx                                                                  *)
IsFailure(response) == ~Is2xx(response)

(* C22: a probe whose target fails (transport error or a status that is   *)
(* not 2xx) becomes one row of its monitor with that outcome; its failure   *)
(* leaves the scheduler loop, the process and every other probe in flight   *)
(* as they were.                                                            *)
C22_ProbeFailureIsRecordedAndIsolated ==
    [][\A p \in BagToSet(probes) :
          /\ (GetReturned(p) /\ IsFailure(responseCode(httpGet(p.url)))) =>
                LET q == [p EXCEPT !.pc = "save",
                                   !.entry = LogEntry(now, httpGet(p.url).ms,
                                                      responseCode(httpGet(p.url)))] IN
                /\ probes' = (probes (-) SetToBag({p})) (+) SetToBag({q})
                /\ IsFailure(q.entry.response)
                /\ schedPc' = schedPc
                /\ phase' = phase
                /\ log_entries' = log_entries
          /\ (ProbeEnded(p) /\ IsFailure(p.entry.response)) =>
                /\ probes' = probes (-) SetToBag({p})
                /\ log_entries' = Append(log_entries, Row(p.slug, p.name, p.entry))
                /\ schedPc' = schedPc
                /\ phase' = phase
      ]_vars

(* The log holds the row of a probe that failed at transport level and    *)
(* the row of the probe of the same pass that got a 200                     *)
C22_Witness ==
    /\ schedPc = "ticking"
    /\ \E i, j \in DOMAIN log_entries :
          /\ log_entries[i].response = Chars("Error: ") \o Chars("EOF")
          /\ log_entries[j].response = Sprintd(200)
          /\ log_entries[i].timestamp = log_entries[j].timestamp

(* C23: every probe that ends has appended exactly one row, the row of    *)
(* its own monitor with its own result, behind the rows the log held, and   *)
(* has left the other probes in flight; so N probes of N monitors end with  *)
(* N new rows, one for each, in whatever order they write.                  *)
C23_EachProbeAppendsItsRow ==
    [][\A p \in BagToSet(probes) :
          ProbeEnded(p) =>
              /\ log_entries' = Append(log_entries, Row(p.slug, p.name, p.entry))
              /\ probes' = probes (-) SetToBag({p})
              /\ monitors' = monitors
      ]_vars

(* The two probes of a pass over two monitors have ended, and the log     *)
(* holds one row for each, the row of the monitor listed second first       *)
C23_Witness ==
    /\ monitorsConfig = <<MB1, MA1>>
    /\ probes = EmptyBag
    /\ Len(log_entries) = 2
    /\ RowKey(log_entries[1]) = Key(MA1)
    /\ RowKey(log_entries[2]) = Key(MB1)

(* C24: once Close has been called the two periodic drivers have stopped  *)
(* and the handle is closed: no pass is started afterwards.                 *)
C24_CloseStopsDrivers ==
    /\ [](phase = "closed" => (schedPc = "off" /\ purgePc = "off" /\ ~dbOpen))
    /\ [][phase = "closed" => ~IsPass]_vars

(* A probe of a target that never answers is in flight *)
HangingInFlight == \E p \in BagToSet(probes) : ~httpGet(p.url).answers

(* The log holds a row of the monitor m stamped t or later *)
RecordedSince(m, t) ==
    \E i \in DOMAIN log_entries :
        /\ RowKey(log_entries[i]) = Key(m)
        /\ log_entries[i].timestamp >= t

History(slug) ==
    getSlugHistory(monitors, dbOpen, monitorsConfig, log_entries, slug, now)

(* C26: every dailyHistory served has exactly 90 buckets, of consecutive  *)
(* days with the oldest first and today last; in every bucket the three     *)
(* classes add up to the total, and a bucket without checks is there with   *)
(* all its counts 0 and uptime 0.                                           *)
C26_NinetyBucketsOldestFirst ==
    served = "getSlugHistory" =>
        \A slug \in {"a", "b"} :
            \A h \in {History(slug)} :
            h.status = 200 =>
                \A n \in DOMAIN h.historyResult :
                    \A d \in {h.historyResult[n]} :
                    /\ Len(d) = 90
                    /\ d[Len(d)].Date = FormatDate(midnight(now))
                    /\ \A i \in 1..(Len(d) - 1) : d[i + 1].Date = d[i].Date + 1
                    /\ \A i \in 1..Len(d) :
                          /\ d[i].UpChecks + d[i].DownChecks + d[i].UnknownChecks
                                 = d[i].TotalChecks
                          /\ d[i].TotalChecks = 0 =>
                                /\ d[i].UpChecks = 0 /\ d[i].DownChecks = 0
                                /\ d[i].UnknownChecks = 0
                                /\ d[i].UptimePercent.num = 0

(* The history of (b,x) served on the second day: yesterday's bucket has  *)
(* checks, today's bucket has none, and (b,y) has no check at all           *)
C26_Witness ==
    /\ served = "getSlugHistory"
    /\ History("b").status = 200
    /\ LET d == History("b").historyResult["x"] IN
         /\ Len(d) = 90
         /\ d[89].TotalChecks >= 1
         /\ d[90].TotalChecks = 0
    /\ \A i \in 1..90 : History("b").historyResult["y"][i].TotalChecks = 0

(* The response begins with the characters of prefix *)
HasPrefix(response, prefix) ==
    Len(response) >= Len(prefix) /\ SubSeq(response, 1, Len(prefix)) = prefix

(* The class of a response as the contract of dailyHistory words it *)
ClassOf(response) ==
    IF HasPrefix(response, <<"2">>) THEN "up"
    ELSE IF HasPrefix(response, <<"4">>) \/ HasPrefix(response, <<"5">>) THEN "down"
    ELSE IF HasPrefix(response, Chars("Error: ")) THEN "down"
    ELSE "unknown"

(* The rows of (b,x) that GetMonitorChecks returns for the day numbered date *)
DayChecks(date) ==
    GetMonitorChecks(monitorsConfig, log_entries, "b", "x",
                     date * twentyFourHours, date * twentyFourHours + twentyFourHours).checks

CountClass(checks, class) ==
    Cardinality({i \in DOMAIN checks : ClassOf(checks[i].response) = class})

(* C27: getStatus gives every response the one class its prefix names, and *)
(* every bucket of a served history counts the checks of its day by that    *)
(* class, with uptime up * 100 / total where total counts the unknown too.  *)
C27_ClassifiedByPrefix ==
    /\ \A o \in Outcomes : getStatus(o) = ClassOf(o)
    /\ served = "getSlugHistory" =>
          \A d \in {History("b").historyResult["x"]} :
          \A i \in 1..Len(d) :
              \A checks \in {DayChecks(d[i].Date)} :
              /\ d[i].UpChecks = CountClass(checks, "up")
              /\ d[i].DownChecks = CountClass(checks, "down")
              /\ d[i].UnknownChecks = CountClass(checks, "unknown")
              /\ d[i].TotalChecks = Len(checks)
              /\ Len(checks) > 0 =>
                    d[i].UptimePercent.num * Len(checks)
                        = CountClass(checks, "up") * 100 * d[i].UptimePercent.den

(* A served bucket of one check that is up and one that is unknown (301): *)
(* the uptime is 50                                                         *)
C27_Witness ==
    /\ served = "getSlugHistory"
    /\ \E i \in 89..90 :
          LET b == History("b").historyResult["x"][i] IN
          /\ b.UpChecks = 1
          /\ b.UnknownChecks = 1
          /\ b.TotalChecks = 2
          /\ b.UptimePercent.num = 50 * b.UptimePercent.den
          /\ \E j \in DOMAIN log_entries : log_entries[j].response = Sprintd(301)

(* C28: a probe whose Get failed holds, and stores, a response that begins *)
(* with "Error: " and is no numeral; a probe whose Get succeeded holds the  *)
(* numeral of its status. A stored error is down for getStatus and in the   *)
(* bucket of its day, is shown as it is (not a 2xx) as CurrentStatus when   *)
(* it is the latest row, and is not counted in UptimePercentage24h.         *)
C28_TransportErrorIsNotAStatus ==
    /\ \A p \in BagToSet(probes) :
          p.pc = "save" =>
              LET reply == httpGet(p.url)
                  response == p.entry.response IN
              IF reply.err # <<>>
              THEN HasPrefix(response, Chars("Error: ")) /\ ~IsDigit(response[1])
              ELSE /\ IsDecimal(response)
                   /\ Atoi(response) = reply.status
                   /\ (Len(response) > 1 => response[1] # "0")
    /\ \A i \in DOMAIN log_entries :
          LET r == log_entries[i]
              k == RowKey(r) IN
          ~IsDecimal(r.response) =>
              /\ HasPrefix(r.response, Chars("Error: "))
              /\ getStatus(r.response) = "down"
              /\ ~Is2xx(r.response)
              /\ (phase = "running" /\ Configured(monitorsConfig, k[1], k[2])) =>
                    /\ DayBucket(monitorsConfig, log_entries, [slug |-> k[1], name |-> k[2]],
                                 midnight(r.timestamp)).DownChecks >= 1
                    /\ \A x \in Summary(k).summaries :
                          /\ (\A j \in RowsOf(log_entries, k) \ {i} :
                                  log_entries[j].timestamp < r.timestamp)
                                => (x.CurrentStatus = r.response /\ ~Is2xx(x.CurrentStatus))
                          /\ LET w == Window24h(k)
                                 errors == {j \in w : ~IsDecimal(log_entries[j].response)} IN
                             w # {} =>
                                 x.UptimePercentage24h.num * Cardinality(w)
                                     <= 100 * (Cardinality(w) - Cardinality(errors))
                                            * x.UptimePercentage24h.den

(* The latest row of (a,x) is a transport error and an earlier row of the  *)
(* last 24 hours is a 200: CurrentStatus is the error, the uptime is 50     *)
C28_Witness ==
    /\ phase = "running"
    /\ Len(log_entries) = 2
    /\ log_entries[1].response = Sprintd(200)
    /\ log_entries[2].response = Chars("Error: ") \o Chars("EOF")
    /\ log_entries[1].timestamp < log_entries[2].timestamp
    /\ log_entries[1].timestamp >= now - twentyFourHours
    /\ \A x \in Summary(<<"a", "x">>).summaries :
          /\ x.CurrentStatus = log_entries[2].response
          /\ x.UptimePercentage24h.num = 50 * x.UptimePercentage24h.den

(* m1 is not behind m2 in the order by slug, then by name *)
InOrder(m1, m2) ==
    \/ StrLess(m1.slug, m2.slug)
    \/ m1.slug = m2.slug /\ (StrLess(m1.name, m2.name) \/ m1.name = m2.name)

(* How many times m is in the list *)
TimesIn(m, list) == Cardinality({i \in DOMAIN list : list[i] = m})

(* C29: the list GetMonitors returns holds the monitors of the             *)
(* configuration, each as many times as the configuration does, in the      *)
(* order by slug and then by name; and serving it leaves the service's own  *)
(* list as it was.                                                          *)
C29_SortedCopy ==
    /\ [](phase = "running" =>
             LET sorted == GetMonitors(monitorsConfig) IN
             /\ Len(sorted) = Len(monitorsConfig)
             /\ \A m \in AllMonitors : TimesIn(m, sorted) = TimesIn(m, monitorsConfig)
             /\ \A i, j \in DOMAIN sorted : i < j => InOrder(sorted[i], sorted[j]))
    /\ [][served' = "GetMonitors" => monitorsConfig' = monitorsConfig]_vars

(* The list (b,y), (b,x) has been served as (b,x), (b,y): the names        *)
(* decide, and the service still holds (b,y), (b,x)                         *)
C29_Witness ==
    /\ served = "GetMonitors"
    /\ monitorsConfig = <<MH1, MB1>>
    /\ GetMonitors(monitorsConfig) = <<MB1, MH1>>

(* What GetMonitorsBySlug returns for the slug in the current state *)
BySlug(slug) == GetMonitorsBySlug(monitors, dbOpen, slug)

(* C30: in a started service GetMonitorsBySlug returns the error "no       *)
(* monitors found" exactly for a slug that no row of the registry has, and  *)
(* else returns, without error, the rows of the registry with that slug and *)
(* no other monitor.                                                        *)
C30_BySlugIsTheRegistryOfTheSlug ==
    phase = "running" =>
        \A slug \in {"a", "b"} :
            /\ (BySlug(slug).err = "no monitors found")
                  <=> (\A m \in monitors : m.slug # slug)
            /\ (BySlug(slug).err = "nil") <=> (\E m \in monitors : m.slug = slug)
            /\ BySlug(slug).err = "nil" =>
                  /\ \A m \in monitors : m.slug = slug => m \in BySlug(slug).monitors
                  /\ \A m \in BySlug(slug).monitors : m \in monitors /\ m.slug = slug

(* The registry holds (b,x) and not (b,y), which the configuration names:  *)
(* the slug b gives (b,x) alone, the slug a gives "no monitors found"       *)
C30_Witness ==
    /\ phase = "running"
    /\ monitorsConfig = <<MH1, MB1>>
    /\ monitors = {MB1}
    /\ BySlug("b").err = "nil"
    /\ BySlug("b").monitors = {MB1}
    /\ BySlug("a").err = "no monitors found"

(* A step in which Start returns an error and main ends the process *)
IsStartError == phase = "new" /\ phase' = "exited"

(* C31: a Start that returns an error leaves the registry and the log as   *)
(* they were, starts neither the scheduler nor the purger and launches no   *)
(* probe; nothing runs in a process whose Start failed.                     *)
C31_FailedStartLeavesNothing ==
    /\ [][IsStartError =>
            /\ monitors' = monitors
            /\ log_entries' = log_entries
            /\ schedPc' = "off"
            /\ purgePc' = "off"
            /\ probes' = EmptyBag
        ]_vars
    /\ [](phase = "exited" => (schedPc = "off" /\ purgePc = "off" /\ probes = EmptyBag))

(* A Start with the list (b,x), (a,x) has failed in its transaction over a *)
(* store that held the registry (a,x) and a row of it: both are still there *)
C31_Witness ==
    /\ phase = "exited"
    /\ monitorsConfig = <<MB1, MA1>>
    /\ monitors = {MA1}
    /\ log_entries # <<>>
    /\ schedPc = "off"

(* C32: the failed write of a probe that holds its logEntry ends the probe *)
(* and leaves the log as it was, so nothing is left to try again; and a     *)
(* probe that ends, with or without its row, leaves the other probes, the   *)
(* scheduler, the purger and the registry as they were.                     *)
C32_FailedWriteIsDropped ==
    /\ [](\A p \in BagToSet(probes) :
             p.pc = "save" =>
                 ENABLED (/\ ProbeSave(p, TRUE)
                          /\ probes' = probes (-) SetToBag({p})
                          /\ log_entries' = log_entries))
    /\ [][\A p \in BagToSet(probes) :
             ProbeEnded(p) =>
                 /\ probes' = probes (-) SetToBag({p})
                 /\ \/ log_entries' = log_entries
                    \/ log_entries' = Append(log_entries, Row(p.slug, p.name, p.entry))
                 /\ schedPc' = schedPc
                 /\ purgePc' = purgePc
                 /\ monitors' = monitors
                 /\ phase' = phase
        ]_vars

(* At second 0 a pass over the registered monitor (a,x) has run, its probe  *)
(* has ended, and the log holds no row: the write failed and no one holds   *)
(* the result; the scheduler is at its ticker                               *)
C32_Witness ==
    /\ phase = "running"
    /\ now = 0
    /\ monitorsConfig = <<MA1>>
    /\ monitors = {MA1}
    /\ schedPc = "ticking"
    /\ probes = EmptyBag
    /\ log_entries = <<>>

(* The seconds of each range preset *)
PresetSeconds ==
    [r \in {<<"1", "h">>, <<"2", "4", "h">>, <<"7", "d">>, <<"3", "0", "d">>, <<"9", "0", "d">>} |->
        CASE r = <<"1", "h">> -> 3600
          [] r = <<"2", "4", "h">> -> 86400
          [] r = <<"7", "d">> -> 604800
          [] r = <<"3", "0", "d">> -> 2592000
          [] r = <<"9", "0", "d">> -> 7776000]

(* C33: a request without start_time and with one of the five presets is   *)
(* parsed without error into start = now minus the preset; without range    *)
(* and start_time the start is now minus 24 hours; a start_time that is     *)
(* given is the start, whatever the range.                                  *)
C33_RangePresets ==
    served.kind = "parseTimeRange" =>
        LET q == served.query
            r == served.result IN
        /\ (q.start_time = <<>> /\ q.range \in DOMAIN PresetSeconds
               /\ (q.end_time = <<>> \/ ~ParseInt(q.end_time).err)) =>
              (r.err = "nil" /\ r.startTime = now - PresetSeconds[q.range])
        /\ (q.start_time = <<>> /\ q.range = <<>>
               /\ (q.end_time = <<>> \/ ~ParseInt(q.end_time).err)) =>
              (r.err = "nil" /\ r.startTime = now - 86400)
        /\ (q.start_time # <<>> /\ r.err = "nil") =>
              r.startTime = ParseInt(q.start_time).value

(* C40: whenever parseTimeRange returns no error the start it returns is   *)
(* not after the end it returns.                                            *)
C40_StartNotAfterEnd ==
    served.kind = "parseTimeRange" =>
        (served.result.err = "nil" => served.result.startTime <= served.result.endTime)

(* C34: the logEntry of a probe is stamped with the second in which its    *)
(* own Get returned, and the row it writes carries that stamp and goes      *)
(* behind the rows written before it, whenever the probe was launched: the  *)
(* log is in the order in which the probes finish.                          *)
C34_CompletionOrder ==
    [][\A p \in BagToSet(probes) :
          /\ GetReturned(p) =>
                \E q \in BagToSet(probes') :
                    /\ q = [p EXCEPT !.pc = "save", !.entry = q.entry]
                    /\ q.entry.timestamp = now
                    /\ probes' = (probes (-) SetToBag({p})) (+) SetToBag({q})
          /\ ProbeEnded(p) =>
                /\ Len(log_entries') = Len(log_entries) + 1
                /\ SubSeq(log_entries', 1, Len(log_entries)) = log_entries
                /\ log_entries'[Len(log_entries')].timestamp = p.entry.timestamp
                /\ RowKey(log_entries'[Len(log_entries')]) = <<p.slug, p.name>>
                /\ p.entry.timestamp <= now
      ]_vars

(* Of the two probes of (a,x) that the one pass launched, the second has   *)
(* written its row, stamped before the second of the write, and the first   *)
(* is still waiting for its Get                                             *)
C34_Witness ==
    /\ monitorsConfig = <<MA1, MA1b>>
    /\ probes = SetToBag({NewProbe(MA1)})
    /\ Len(log_entries) = 1
    /\ log_entries[1].response = responseCode(httpGet(MA1b.url))
    /\ log_entries[1].timestamp = 0
    /\ now = 1

(* C35: a summary that GetMonitorSummary returns with CurrentStatus "No    *)
(* data yet" has uptime 0 and average time 0, whatever was written or       *)
(* purged while it was computed.                                            *)
C35_SummaryIsOneSnapshot ==
    (request.pc = "done" /\ request.summary.CurrentStatus = Chars("No data yet")) =>
        /\ request.summary.UptimePercentage24h.num = 0
        /\ request.summary.AverageResponseTime24h.num = 0

(* The rows of (b,x) stamped in the days a history served now covers: from *)
(* the midnight that opens its oldest day to the midnight that closes today *)
CoveredRows ==
    {i \in RowsOf(log_entries, <<"b", "x">>) :
        /\ log_entries[i].timestamp >= midnight(now) - (days - 1) * twentyFourHours
        /\ log_entries[i].timestamp < midnight(now) + twentyFourHours}

(* C36: the totals of the buckets of a served history add up to the number *)
(* of rows of the monitor stamped in the covered days: every row is counted *)
(* in one bucket and in no other, a row stamped at a midnight too.          *)
C36_EachRowInOneBucket ==
    served = "getSlugHistory" =>
        \A d \in {History("b").historyResult["x"]} :
            SumSeq([i \in 1..Len(d) |-> d[i].TotalChecks]) = Cardinality(CoveredRows)

(* C37: once Close has returned no step changes the log or the registry;   *)
(* a probe in flight is not aborted: its Get can still return when its      *)
(* target answers, and its write can still be attempted, fails and leaves   *)
(* the log as it is; a purge, too, fails and leaves the log as it is.       *)
C37_NothingWrittenAfterClose ==
    /\ [][phase = "closed" => (log_entries' = log_entries /\ monitors' = monitors)]_vars
    /\ [](phase = "closed" =>
            /\ \A p \in BagToSet(probes) :
                  /\ (p.pc = "get" /\ httpGet(p.url).answers) => ENABLED ProbeDone(p)
                  /\ p.pc = "save" =>
                        /\ ENABLED ProbeSave(p, FALSE)
                        /\ saveLogEntry(log_entries, monitors, dbOpen,
                                        p.slug, p.name, p.entry, FALSE).err
            /\ purgeOldRecords(log_entries, dbOpen, now, FALSE).err)

(* After Close, with rows in the log, a probe whose Get has returned holds *)
(* a result to write                                                        *)
C37_Witness ==
    /\ phase = "closed"
    /\ log_entries # <<>>
    /\ \E p \in BagToSet(probes) : p.pc = "save"

(* C38: in a started service GetMonitorsBySlug gives for every slug the    *)
(* entries of that slug that GetMonitors gives, and the monitor of every    *)
(* probe in flight, and every monitor GetMonitorSummary accepts, has a row  *)
(* in the registry.                                                         *)
C38_ListingsAgree ==
    phase = "running" =>
        /\ \A slug \in {"a", "b"} :
              BySlug(slug).monitors
                  = {m \in Range(GetMonitors(monitorsConfig)) : m.slug = slug}
        /\ \A p \in BagToSet(probes) : \E m \in monitors : Key(m) = <<p.slug, p.name>>
        /\ \A k \in QueryKeys :
              Configured(monitorsConfig, k[1], k[2]) => \E m \in monitors : Key(m) = k

(* C39: a summary request for (slug, name) is answered 200 only for a       *)
(* configured monitor and with a summary of that monitor, whose current     *)
(* status is the latest response of its own rows, never with the summary    *)
(* cached for another identity; and after an answer 404 no item of the      *)
(* cache is found under the key of the request.                             *)
C39_CacheServesTheAskedMonitor ==
    served.kind = "getMonitorSummary" =>
        /\ served.status = 200 =>
              /\ Configured(monitorsConfig, served.slug, served.name)
              /\ served.body.CurrentStatus
                    \in CurrentStatuses(log_entries, served.slug, served.name)
        /\ served.status = 404 =>
              cacheGet(cache, cacheKey(served.slug, served.name), now) = {}
=============================================================================
